---- MODULE Spec2Model ----
(***************************************************************************)
(* Model of typecheck/framework.py: the TypeVarNamespace binding and       *)
(* compatibility engine, the Checker registry and the built-in checkers.   *)
(*                                                                         *)
(* Python objects that are shared by reference (the instance-level binding *)
(* dict stored under NS_ATTRIBUTE, Checker instances) live in heaps and    *)
(* are referred to by their index, so that aliasing is explicit.           *)
(* The model follows the typing module the code is written for             *)
(* (tg.GenericMeta exists; instances have default truthiness).             *)
(***************************************************************************)
EXTENDS Integers, Sequences, FiniteSets, TLC

\* ---------------------------------------------------------------- bounds
\* TypeVarNamespace objects constructed in one run.
MaxNamespaces == 2
\* bind / bind_to_instance / is_compatible calls made in one run.
MaxCalls == 2
\* Checker.register calls made in one run, after the built-in registration,
\* among the calls of NextChecker.
MaxRegistered == 1
\* Checker.register calls made in one run, after the built-in registration,
\* among the calls of NextRegistry.
MaxRegistrations == 2
\* Checker instances constructed in one run.
MaxCheckers == 2

\* ------------------------------------------------------- python values
None == "None"

\* A reference into a heap is its index; the None reference is 0.
NoneRef == 0

\* The classes used as observed types, with Python's issubclass on them:
\* int <: Number <: object, str <: object.
Types == {"Number", "int", "str"}

Bases(c) ==
    CASE c = "int"    -> {"int", "Number", "object"}
      [] c = "Number" -> {"Number", "object"}
      [] c = "str"    -> {"str", "object"}
      [] c = "object" -> {"object"}
      [] OTHER        -> {c, "object"}

\* Variant: a class is not counted as a subclass of itself.
issubclass_strict(c, d) == d \in Bases(c) /\ c # d

issubclass(c, d) == d \in Bases(c)

\* TypeVar objects, compared by identity.
TypeVars == {"G", "H", "L"}

\* The instances a namespace can be built for, besides None: "I" is an
\* instance of a generic class with the parameters G and H, "P" an instance
\* of a class that is not generic, "E" an empty list of a generic list class
\* with the parameters G and H. All three take attributes.
Instances == {"I", "P", "E"}

\* The instances of generic classes among them.
GenericInstances == {"I", "E"}

\* The instances that test false ("self._instance and ..."): the empty list.
\* Item assignment with a TypeVar for the index is a TypeError on it.
FalsyInstances == {"E"}

\* _instance_ns of a namespace built for an instance that tests false: the
\* instance itself.
SelfRef == -1

\* Objects without a __dict__, such as the int 5.
NoDictObjects == {"5"}

\* is_GenericMeta_class(type(instance)); type(None) and the class of "P"
\* are not such classes.
is_GenericMeta_class_of(instance) == instance \in GenericInstances

__parameters__(instance) == IF instance \in GenericInstances THEN {"G", "H"} ELSE {}

\* The attributes the TypeVars are created with: G is invariant, H covariant
\* and L contravariant, all three with the upper bound bound (None for none).
TypeVarsBoundedBy(bound) ==
    [v \in TypeVars |-> [__bound__ |-> bound,
                         __covariant__ |-> v = "H",
                         __contravariant__ |-> v = "L"]]

\* ------------------------------------------------------------- state
VARIABLES
    calls,          \* number of bind / bind_to_instance / is_compatible calls made so far
    typevars,       \* typevar |-> its attributes, fixed at creation
    namespaces,     \* the TypeVarNamespace objects, in order of construction
    dicts,          \* heap of the dicts stored under NS_ATTRIBUTE
    instance_dict,  \* instance |-> index in dicts of instance.__dict__[NS_ATTRIBUTE], or NoneRef
    last,           \* the last TypeVarNamespace call and what it returned
    _registered,    \* Checker._registered: the list of (predicate, factory) pairs
    checkers,       \* heap of the Checker instances constructed so far
    out             \* the last Checker call and what it returned

nsvars == <<calls, typevars, namespaces, dicts, instance_dict, last>>

regvars == <<_registered, checkers, out>>

vars == <<calls, typevars, namespaces, dicts, instance_dict, last,
          _registered, checkers, out>>

\* A python dict keyed by TypeVar: a function on the keys it holds.
EmptyDict == [k \in {} |-> None]

DictSet(d, k, v) == [x \in (DOMAIN d) \cup {k} |-> IF x = k THEN v ELSE d[x]]

\* ------------------------------------------------- TypeVarNamespace
\* __init__: a fresh call-level dict; _instance_ns is whatever the
\* instance's __dict__ holds under NS_ATTRIBUTE right now (None if nothing).
NamespaceInit(instance) ==
    [_ns          |-> EmptyDict,
     _instance    |-> instance,
     _instance_ns |-> IF instance = None THEN NoneRef
                      ELSE IF instance \in FalsyInstances THEN SelfRef
                      ELSE instance_dict[instance]]

\* Variant: no typevar is taken for a parameter of the instance.
is_generic_in_never(ns, typevar) == FALSE

is_generic_in(ns, typevar) ==
    IF ~is_GenericMeta_class_of(ns._instance)
    THEN FALSE
    ELSE typevar \in __parameters__(ns._instance)

\* truth value of "self._instance_ns and typevar in self._instance_ns"
InInstanceNs(ns, typevar) ==
    /\ ns._instance_ns # NoneRef
    /\ ns._instance_ns # SelfRef
    /\ DOMAIN dicts[ns._instance_ns] # {}
    /\ typevar \in DOMAIN dicts[ns._instance_ns]

is_bound(ns, typevar) ==
    IF typevar \in DOMAIN ns._ns THEN TRUE ELSE InInstanceNs(ns, typevar)

\* Variant: the instance-level dict is asked first.
binding_of_instance_first(ns, typevar) ==
    IF InInstanceNs(ns, typevar) THEN dicts[ns._instance_ns][typevar]
    ELSE IF typevar \in DOMAIN ns._ns THEN ns._ns[typevar]
    ELSE None

\* Variant: the lookup forgets the instance-level dict.
binding_of_call_level_only(ns, typevar) ==
    IF typevar \in DOMAIN ns._ns THEN ns._ns[typevar] ELSE None

binding_of(ns, typevar) ==
    IF typevar \in DOMAIN ns._ns THEN ns._ns[typevar]
    ELSE IF InInstanceNs(ns, typevar) THEN dicts[ns._instance_ns][typevar]
    ELSE None

\* bind_to_instance on namespace n; raised is "None" when it returns and the
\* name of the exception when it raises. When the namespace has no instance
\* dict yet, a new dict is set on the instance (an AttributeError when the
\* namespace has no instance: None takes no attribute) and remembered;
\* then the entry is written into what is remembered: the dict, or the
\* instance itself when it tested false at construction, which is a
\* TypeError. Nothing is asked of the typevar.
bind_to_instance(n, typevar, its_type, raised) ==
    LET ns == namespaces[n] IN
    IF ns._instance_ns = NoneRef
    THEN IF ns._instance = None
         THEN /\ raised = "AttributeError"
              /\ UNCHANGED <<namespaces, dicts, instance_dict>>
         ELSE /\ raised = "None"
              /\ dicts' = Append(dicts, DictSet(EmptyDict, typevar, its_type))
              /\ instance_dict' = [instance_dict EXCEPT ![ns._instance] = Len(dicts) + 1]
              /\ namespaces' = [namespaces EXCEPT ![n]._instance_ns = Len(dicts) + 1]
    ELSE IF ns._instance_ns = SelfRef
    THEN /\ raised = "TypeError"
         /\ UNCHANGED <<namespaces, dicts, instance_dict>>
    ELSE /\ raised = "None"
         /\ dicts' = [dicts EXCEPT ![ns._instance_ns] = DictSet(@, typevar, its_type)]
         /\ UNCHANGED <<instance_dict, namespaces>>

\* What a caller can hand over in place of a TypeVar: the class int.
NonTypeVars == {"int"}

\* Variant: the assertion is missing, anything is taken for a TypeVar.
IsTypeVar_anything(typevar) == TRUE

\* "type(typevar) == tg.TypeVar", the assertion bind starts with.
IsTypeVar(typevar) == typevar \in TypeVars

\* bind on namespace n; raised is "None" when bind returns and the name of
\* the exception when it raises.
bind(n, typevar, its_type, raised) ==
    IF ~IsTypeVar(typevar)
    THEN /\ raised = "AssertionError"
         /\ UNCHANGED <<namespaces, dicts, instance_dict>>
    ELSE IF is_generic_in(namespaces[n], typevar)
         THEN bind_to_instance(n, typevar, its_type, raised)
         ELSE /\ raised = "None"
              /\ namespaces' = [namespaces EXCEPT ![n]._ns = DictSet(@, typevar, its_type)]
              /\ UNCHANGED <<dicts, instance_dict>>

\* Variant: the test of the binding against the bound is missing.
BoundViolation_never(typevar, binding) == FALSE

\* is_compatible, first test: an existing binding that is not a subclass of
\* the typevar's bound ("binding and typevar.__bound__ and not issubclass").
BoundViolation(typevar, binding) ==
    /\ binding # None
    /\ typevars[typevar].__bound__ # None
    /\ ~issubclass(binding, typevars[typevar].__bound__)

\* is_compatible, second test: "binding is None" selects the initial binding.
\* Variant: every call binds, also when a binding exists.
InitialBinding_always(binding) == TRUE

InitialBinding(binding) == binding = None

\* is_compatible, the covariant / contravariant / invariant comparison of
\* the observed type with an existing binding.
\* Variant: an invariant typevar accepts subclasses of its binding.
VarianceRule_invariant_accepts_subclass(typevar, binding, its_type) ==
    IF typevars[typevar].__contravariant__ THEN issubclass(binding, its_type)
    ELSE issubclass(its_type, binding)

\* Variant: the contravariant test has its arguments the wrong way round.
VarianceRule_contravariant_swapped(typevar, binding, its_type) ==
    IF typevars[typevar].__covariant__ THEN issubclass(its_type, binding)
    ELSE IF typevars[typevar].__contravariant__ THEN issubclass(its_type, binding)
    ELSE binding = its_type

VarianceRule(typevar, binding, its_type) ==
    IF typevars[typevar].__covariant__ THEN issubclass(its_type, binding)
    ELSE IF typevars[typevar].__contravariant__ THEN issubclass(binding, its_type)
    ELSE binding = its_type

PyBool(b) == IF b THEN "True" ELSE "False"

\* is_compatible on namespace n; result is the returned value ("True" or
\* "False") or the name of the exception that bind raised.
is_compatible(n, typevar, its_type, result) ==
    LET binding == binding_of(namespaces[n], typevar) IN
    IF BoundViolation(typevar, binding)
    THEN /\ result = "False"
         /\ UNCHANGED <<namespaces, dicts, instance_dict>>
    ELSE IF InitialBinding(binding)
    THEN \E raised \in {"None", "AssertionError", "AttributeError", "TypeError"} :
            /\ bind(n, typevar, its_type, raised)
            /\ result = IF raised = "None" THEN "True" ELSE raised
    ELSE /\ result = PyBool(VarianceRule(typevar, binding, its_type))
         /\ UNCHANGED <<namespaces, dicts, instance_dict>>

Call(op, n, typevar, its_type, result) ==
    [op |-> op, ns |-> n, typevar |-> typevar, its_type |-> its_type,
     result |-> result]

\* ------------------------------------------------------------- Checker
\* What can be handed to Checker.create and to optional(): an annotation
\* (the class int, the TypeVar L, or "lit", a value that is neither) or a
\* Checker instance, given by its reference.
Annotations == {"int", "L", "lit"}

Annotation(a) == [checker |-> NoneRef, annotation |-> a]

Instance(c) == [checker |-> c, annotation |-> None]

\* The values handed to check, and the class of each.
Values == {"no_value", "None", "an_int", "a_str"}

TypeOf(value) ==
    CASE value = "no_value" -> "NoValue"
      [] value = "None"     -> "NoneType"
      [] value = "an_int"   -> "int"
      [] value = "a_str"    -> "str"

\* The predicates handed to register: inspect.isclass (the one the module
\* registers itself) and a test for TypeVar annotations.
Predicates == {"isclass", "is_typevar"}

Matches(predicate, annotation) ==
    CASE predicate = "isclass"    -> annotation \in Types
      [] predicate = "is_typevar" -> annotation \in TypeVars

\* The factories handed to register: the TypeChecker class and the class of
\* a checker that asks the namespace whether the value's type is compatible
\* with a TypeVar.
Factories == {"TypeChecker", "TypeVarChecker"}

Construct(factory, annotation) ==
    [kind |-> factory, arg |-> annotation, _check |-> NoneRef]

Entry(predicate, factory) == [predicate |-> predicate, factory |-> factory]

\* Variant: prepend is ignored.
register_always_append(registered, predicate, factory, prepend) ==
    Append(registered, Entry(predicate, factory))

\* Variant: prepend writes over the first entry instead of inserting.
register_prepend_overwrites(registered, predicate, factory, prepend) ==
    IF prepend
    THEN <<Entry(predicate, factory)>> \o Tail(registered)
    ELSE Append(registered, Entry(predicate, factory))

register(registered, predicate, factory, prepend) ==
    IF prepend
    THEN <<Entry(predicate, factory)>> \o registered
    ELSE Append(registered, Entry(predicate, factory))

\* Variant: when the loop runs to its end, the last entry is taken.
FirstMatch_falls_back_to_last(annotation) ==
    LET hits == {i \in 1..Len(_registered) : Matches(_registered[i].predicate, annotation)} IN
    IF hits = {} THEN Len(_registered) ELSE CHOOSE i \in hits : \A j \in hits : i <= j

\* The position of the entry the for-loop of create returns from, 0 when
\* the loop runs to its end.
FirstMatch(annotation) ==
    LET hits == {i \in 1..Len(_registered) : Matches(_registered[i].predicate, annotation)} IN
    IF hits = {} THEN 0 ELSE CHOOSE i \in hits : \A j \in hits : i <= j

\* Variant: the isinstance test is missing, a checker is dispatched like an
\* annotation (no predicate holds of it).
create_without_passthrough(heap, arg) ==
    LET i == IF arg.checker # NoneRef THEN 0 ELSE FirstMatch(arg.annotation) IN
    IF i = 0 THEN [ret |-> NoneRef, checkers |-> heap]
    ELSE [ret |-> Len(heap) + 1,
          checkers |-> Append(heap, Construct(_registered[i].factory, arg.annotation))]

\* Checker.create with heap as the checkers constructed so far: the returned
\* reference (NoneRef for None) and the heap afterwards.
create(heap, arg) ==
    IF arg.checker # NoneRef
    THEN [ret |-> arg.checker, checkers |-> heap]
    ELSE LET i == FirstMatch(arg.annotation) IN
         IF i = 0 THEN [ret |-> NoneRef, checkers |-> heap]
         ELSE [ret |-> Len(heap) + 1,
               checkers |-> Append(heap, Construct(_registered[i].factory, arg.annotation))]

\* optional.__init__: the argument is resolved by Checker.create, then the
\* optional instance is constructed.
optional(heap, arg) ==
    LET made == create(heap, arg) IN
    [ret |-> Len(made.checkers) + 1,
     checkers |-> Append(made.checkers,
                         [kind |-> "optional", arg |-> None, _check |-> made.ret])]

\* TypeChecker.check: isinstance(value, self._cls), a TypeError when _cls is
\* not a class.
TypeChecker_check(chk, value) ==
    IF chk.arg \notin Types THEN "TypeError"
    ELSE PyBool(issubclass(TypeOf(value), chk.arg))

\* Variant: None is handed on to the wrapped checker.
optional_accepts_only_no_value(value) == value = "no_value"

\* optional.check, the values accepted before the wrapped checker is asked.
optional_accepts_unchecked(value) == value = "no_value" \/ value = "None"

\* check of a checker for a TypeVar annotation: it asks the namespace
\* whether the class of the value is compatible with the TypeVar.
TypeVarChecker_check(chk, value, n, result) ==
    is_compatible(n, chk.arg, TypeOf(value), result)

RECURSIVE check(_, _, _, _)
\* check of the checker referred to by c, with namespace n; result is the
\* returned value or the name of the exception raised.
check(c, value, n, result) ==
    IF c = NoneRef
    THEN /\ result = "AttributeError"
         /\ UNCHANGED <<namespaces, dicts, instance_dict>>
    ELSE LET chk == checkers[c] IN
         CASE chk.kind = "TypeChecker" ->
                /\ result = TypeChecker_check(chk, value)
                /\ UNCHANGED <<namespaces, dicts, instance_dict>>
           [] chk.kind = "TypeVarChecker" ->
                TypeVarChecker_check(chk, value, n, result)
           [] chk.kind = "optional" ->
                IF optional_accepts_unchecked(value)
                THEN /\ result = "True"
                     /\ UNCHANGED <<namespaces, dicts, instance_dict>>
                ELSE check(chk._check, value, n, result)

Results == {"True", "False", "TypeError", "AssertionError", "AttributeError"}

\* What the last Checker call was and what it returned.
OutStart == [op |-> "start"]

OutRegister(predicate, factory, prepend) ==
    [op |-> "register", predicate |-> predicate, factory |-> factory,
     prepend |-> prepend]

OutCreate(op, arg, ret) == [op |-> op, arg |-> arg, ret |-> ret]

OutCheck(c, value, n, result) ==
    [op |-> "check", checker |-> c, value |-> value, ns |-> n, result |-> result]

\* ------------------------------------------------------------ actions
\* The state once the module is imported: the registry holds the entry
\* registered for plain classes, nothing else exists.
Init ==
    /\ calls = 0
    /\ \E bound \in {None, "Number"} : typevars = TypeVarsBoundedBy(bound)
    /\ namespaces = <<>>
    /\ dicts = <<>>
    /\ instance_dict = [i \in Instances |-> NoneRef]
    /\ last = Call("start", 0, None, None, None)
    /\ _registered = <<Entry("isclass", "TypeChecker")>>
    /\ checkers = <<>>
    /\ out = OutStart

\* TypeVarNamespace(instance): an object without __dict__ ends __init__ in
\* an AttributeError and no namespace comes to be.
NewNamespace(instance) ==
    /\ IF instance \in NoDictObjects
       THEN /\ last' = Call("TypeVarNamespace", 0, None, None, "AttributeError")
            /\ UNCHANGED namespaces
       ELSE /\ Len(namespaces) < MaxNamespaces
            /\ namespaces' = Append(namespaces, NamespaceInit(instance))
            /\ last' = Call("TypeVarNamespace", Len(namespaces) + 1, None, None, None)
    /\ UNCHANGED <<calls, typevars, dicts, instance_dict>>
    /\ UNCHANGED regvars

DoBind(n, typevar, its_type) ==
    /\ calls < MaxCalls
    /\ calls' = calls + 1
    /\ \E raised \in {"None", "AssertionError", "AttributeError", "TypeError"} :
          /\ bind(n, typevar, its_type, raised)
          /\ last' = Call("bind", n, typevar, its_type, raised)
    /\ UNCHANGED typevars
    /\ UNCHANGED regvars

DoIsCompatible(n, typevar, its_type) ==
    /\ calls < MaxCalls
    /\ calls' = calls + 1
    /\ \E result \in Results :
          /\ is_compatible(n, typevar, its_type, result)
          /\ last' = Call("is_compatible", n, typevar, its_type, result)
    /\ UNCHANGED typevars
    /\ UNCHANGED regvars

\* binding_of on namespace n: the binding is returned, nothing is written.
DoBindingOf(n, typevar) ==
    /\ last' = Call("binding_of", n, typevar, None, binding_of(namespaces[n], typevar))
    /\ UNCHANGED <<calls, typevars, namespaces, dicts, instance_dict>>
    /\ UNCHANGED regvars

\* is_bound on namespace n: the truth value of what is returned is kept.
DoIsBound(n, typevar) ==
    /\ last' = Call("is_bound", n, typevar, None, PyBool(is_bound(namespaces[n], typevar)))
    /\ UNCHANGED <<calls, typevars, namespaces, dicts, instance_dict>>
    /\ UNCHANGED regvars

\* Namespaces are built here for None and for the generic instance "I"; the
\* other kinds of instance are among the calls of NextInstances and of
\* NextLookup.
Next ==
    \/ \E instance \in {"I", None} : NewNamespace(instance)
    \/ \E n \in 1..Len(namespaces), v \in TypeVars, t \in Types : DoBind(n, v, t)
    \/ \E n \in 1..Len(namespaces), v \in TypeVars, t \in Types : DoIsCompatible(n, v, t)

Spec == Init /\ [][Next]_vars

\* The same calls, also with something that is not a TypeVar in the place
\* of the typevar.
NextMisuse ==
    \/ \E instance \in {"I", None} : NewNamespace(instance)
    \/ \E n \in 1..Len(namespaces), v \in TypeVars \cup NonTypeVars, t \in Types : DoBind(n, v, t)
    \/ \E n \in 1..Len(namespaces), v \in TypeVars \cup NonTypeVars, t \in Types : DoIsCompatible(n, v, t)

SpecMisuse == Init /\ [][NextMisuse]_vars

\* bind_to_instance called on namespace n by itself, not through bind.
DoBindToInstance(n, typevar, its_type) ==
    /\ calls < MaxCalls
    /\ calls' = calls + 1
    /\ \E raised \in {"None", "AttributeError", "TypeError"} :
          /\ bind_to_instance(n, typevar, its_type, raised)
          /\ last' = Call("bind_to_instance", n, typevar, its_type, raised)
    /\ UNCHANGED typevars
    /\ UNCHANGED regvars

\* Arguments for the calls on namespaces for every kind of instance: a
\* parameter of the generic classes and a TypeVar that is none, and two
\* classes to tell one binding from another.
TwoTypeVars == {"G", "L"}

TwoTypes == {"int", "str"}

\* The calls of Next on namespaces for every kind of instance.
NextInstances ==
    \/ \E instance \in Instances \cup NoDictObjects \cup {None} : NewNamespace(instance)
    \/ \E n \in 1..Len(namespaces), v \in TwoTypeVars, t \in TwoTypes : DoBind(n, v, t)
    \/ \E n \in 1..Len(namespaces), v \in TwoTypeVars, t \in TwoTypes : DoIsCompatible(n, v, t)

SpecInstances == Init /\ [][NextInstances]_vars

\* The calls that write a binding by themselves, bind and bind_to_instance,
\* and the two lookups, on namespaces for every kind of instance. None of
\* these calls reads the attributes of a TypeVar. bind is called with int
\* and bind_to_instance with str, which tells the bindings of the two
\* apart.
InitLookup ==
    /\ calls = 0
    /\ typevars = TypeVarsBoundedBy(None)
    /\ namespaces = <<>>
    /\ dicts = <<>>
    /\ instance_dict = [i \in Instances |-> NoneRef]
    /\ last = Call("start", 0, None, None, None)
    /\ _registered = <<Entry("isclass", "TypeChecker")>>
    /\ checkers = <<>>
    /\ out = OutStart

NextLookup ==
    \/ \E instance \in Instances \cup NoDictObjects \cup {None} : NewNamespace(instance)
    \/ \E n \in 1..Len(namespaces), v \in TwoTypeVars : DoBind(n, v, "int")
    \/ \E n \in 1..Len(namespaces), v \in TwoTypeVars \cup NonTypeVars :
          DoBindToInstance(n, v, "str")
    \/ \E n \in 1..Len(namespaces), v \in TwoTypeVars : DoBindingOf(n, v)
    \/ \E n \in 1..Len(namespaces), v \in TwoTypeVars : DoIsBound(n, v)

SpecLookup == InitLookup /\ [][NextLookup]_vars

\* The Checker calls, made with one namespace TypeVarNamespace() at hand.
InitChecker ==
    /\ calls = 0
    /\ \E bound \in {None, "Number"} : typevars = TypeVarsBoundedBy(bound)
    /\ dicts = <<>>
    /\ instance_dict = [i \in Instances |-> NoneRef]
    /\ namespaces = <<NamespaceInit(None)>>
    /\ last = Call("TypeVarNamespace", 1, None, None, None)
    /\ _registered = <<Entry("isclass", "TypeChecker")>>
    /\ checkers = <<>>
    /\ out = OutStart

Arguments == {Annotation(a) : a \in Annotations} \cup {Instance(c) : c \in 1..Len(checkers)}

DoRegister(predicate, factory, prepend) ==
    /\ _registered' = register(_registered, predicate, factory, prepend)
    /\ out' = OutRegister(predicate, factory, prepend)
    /\ UNCHANGED checkers
    /\ UNCHANGED nsvars

DoCreate(arg) ==
    LET made == create(checkers, arg) IN
    /\ Len(made.checkers) <= MaxCheckers
    /\ checkers' = made.checkers
    /\ out' = OutCreate("create", arg, made.ret)
    /\ UNCHANGED _registered
    /\ UNCHANGED nsvars

DoOptional(arg) ==
    LET made == optional(checkers, arg) IN
    /\ Len(made.checkers) <= MaxCheckers
    /\ checkers' = made.checkers
    /\ out' = OutCreate("optional", arg, made.ret)
    /\ UNCHANGED _registered
    /\ UNCHANGED nsvars

DoCheck(c, value, n) ==
    /\ \E result \in Results :
          /\ check(c, value, n, result)
          /\ out' = OutCheck(c, value, n, result)
    /\ UNCHANGED <<calls, typevars, last, _registered, checkers>>

NextChecker ==
    \/ \E p \in Predicates, f \in Factories, prepend \in BOOLEAN :
          Len(_registered) < 1 + MaxRegistered /\ DoRegister(p, f, prepend)
    \/ \E arg \in Arguments : DoCreate(arg)
    \/ \E arg \in Arguments : DoOptional(arg)
    \/ \E c \in 1..Len(checkers), value \in Values, n \in 1..Len(namespaces) : DoCheck(c, value, n)

SpecChecker == InitChecker /\ [][NextChecker]_vars

\* The calls that write and read the registry, register and create, with
\* more registrations than NextChecker makes.
NextRegistry ==
    \/ \E p \in Predicates, f \in Factories, prepend \in BOOLEAN :
          Len(_registered) < 1 + MaxRegistrations /\ DoRegister(p, f, prepend)
    \/ \E arg \in Arguments : DoCreate(arg)

SpecRegistry == InitChecker /\ [][NextRegistry]_vars

\* =========================================================== properties

C2_BindingMonotonic ==
    [][ last'.op = "is_compatible"
        => /\ \A n \in 1..Len(namespaces), v \in TypeVars :
                 binding_of(namespaces[n], v) # None
                 => (binding_of(namespaces[n], v))' = binding_of(namespaces[n], v)
           /\ binding_of(namespaces[last'.ns], last'.typevar) # None
              => UNCHANGED <<namespaces, dicts, instance_dict>> ]_vars

C2_Witness ==
    /\ calls = 2
    /\ last.op = "is_compatible"
    /\ last.result = "False"
    /\ binding_of(namespaces[last.ns], last.typevar) = "int"
    /\ last.its_type = "str"

\* C3 (as stated): for an invariant typevar v bound to T, is_compatible(v, U)
\* returns True if U is T and False for every other U.
C3_InvariantExact ==
    [][ LET b == binding_of(namespaces[last'.ns], last'.typevar) IN
        (/\ last'.op = "is_compatible"
         /\ ~typevars[last'.typevar].__covariant__
         /\ ~typevars[last'.typevar].__contravariant__
         /\ b # None)
        => last'.result = PyBool(last'.its_type = b) ]_vars

\* C3 (amended): for an invariant typevar v bound to T, is_compatible(v, U)
\* returns False for every U other than T, and is_compatible(v, T) returns
\* True provided v has no upper bound or T is a subclass of it.
C3_InvariantExactWithinBound ==
    [][ LET b == binding_of(namespaces[last'.ns], last'.typevar)
            tv == typevars[last'.typevar] IN
        (/\ last'.op = "is_compatible"
         /\ ~tv.__covariant__
         /\ ~tv.__contravariant__
         /\ b # None)
        => /\ last'.its_type # b => last'.result = "False"
           /\ (last'.its_type = b /\ (tv.__bound__ = None \/ issubclass(b, tv.__bound__)))
              => last'.result = "True" ]_vars

C3_Witness ==
    /\ calls = 2
    /\ last.op = "is_compatible"
    /\ ~typevars[last.typevar].__covariant__
    /\ ~typevars[last.typevar].__contravariant__
    /\ typevars[last.typevar].__bound__ = "Number"
    /\ binding_of(namespaces[last.ns], last.typevar) = "int"
    /\ last.its_type = "int"
    /\ last.result = "True"

\* C4 (as stated): for a covariant typevar v bound to T, is_compatible(v, S)
\* returns True exactly when S is a subclass of T (T included).
C4_CovariantSubtypes ==
    [][ LET b == binding_of(namespaces[last'.ns], last'.typevar) IN
        (/\ last'.op = "is_compatible"
         /\ typevars[last'.typevar].__covariant__
         /\ b # None)
        => last'.result = PyBool(last'.its_type \in {c \in Types : b \in Bases(c)}) ]_vars

\* C4 (amended): for a covariant typevar v bound to T, is_compatible(v, S)
\* returns False for every S that is not a subclass of T, and True for every
\* subclass S of T (T included) provided v has no upper bound or T is a
\* subclass of it.
C4_CovariantSubtypesWithinBound ==
    [][ LET b == binding_of(namespaces[last'.ns], last'.typevar)
            tv == typevars[last'.typevar]
            subtypes == {c \in Types : b \in Bases(c)} IN
        (/\ last'.op = "is_compatible"
         /\ tv.__covariant__
         /\ b # None)
        => /\ last'.its_type \notin subtypes => last'.result = "False"
           /\ (last'.its_type \in subtypes /\ (tv.__bound__ = None \/ tv.__bound__ \in Bases(b)))
              => last'.result = "True" ]_vars

C4_Witness ==
    /\ calls = 2
    /\ last.op = "is_compatible"
    /\ typevars[last.typevar].__covariant__
    /\ binding_of(namespaces[last.ns], last.typevar) = "Number"
    /\ last.its_type = "int"
    /\ last.result = "True"

\* C5 (as stated): for a contravariant typevar v bound to T,
\* is_compatible(v, S) returns True exactly when S is a superclass of T
\* (T included).
C5_ContravariantSupertypes ==
    [][ LET b == binding_of(namespaces[last'.ns], last'.typevar) IN
        (/\ last'.op = "is_compatible"
         /\ typevars[last'.typevar].__contravariant__
         /\ b # None)
        => last'.result = PyBool(last'.its_type \in Bases(b)) ]_vars

\* C5 (amended): for a contravariant typevar v bound to T,
\* is_compatible(v, S) returns False for every S that is not a superclass of
\* T, and True for every superclass S of T (T included) provided v has no
\* upper bound or T is a subclass of it.
C5_ContravariantSupertypesWithinBound ==
    [][ LET b == binding_of(namespaces[last'.ns], last'.typevar)
            tv == typevars[last'.typevar] IN
        (/\ last'.op = "is_compatible"
         /\ tv.__contravariant__
         /\ b # None)
        => /\ last'.its_type \notin Bases(b) => last'.result = "False"
           /\ (last'.its_type \in Bases(b) /\ (tv.__bound__ = None \/ tv.__bound__ \in Bases(b)))
              => last'.result = "True" ]_vars

C5_Witness ==
    /\ calls = 2
    /\ last.op = "is_compatible"
    /\ typevars[last.typevar].__contravariant__
    /\ binding_of(namespaces[last.ns], last.typevar) = "int"
    /\ last.its_type = "Number"
    /\ last.result = "True"
\* C6 (as stated): a binding of a generic parameter of instance I made
\* through one namespace built for I is returned by binding_of on every other
\* namespace built for I; a call-level binding made on one namespace (the
\* only binding made so far) is not visible on another namespace built for
\* the same instance.
C6_ScopePersistence ==
    \A n1, n2 \in 1..Len(namespaces) :
        (/\ n1 # n2
         /\ namespaces[n1]._instance # None
         /\ namespaces[n2]._instance = namespaces[n1]._instance
         /\ last.op = "bind"
         /\ last.ns = n1)
        => IF is_generic_in(namespaces[n1], last.typevar)
           THEN binding_of(namespaces[n2], last.typevar) = last.its_type
           ELSE calls = 1 => /\ ~is_bound(namespaces[n2], last.typevar)
                             /\ binding_of(namespaces[n2], last.typevar) = None

\* C7 (as stated): bind(typevar, type) on a namespace whose instance is
\* generic in typevar adds the entry typevar -> type to the instance's
\* persistent dict (an empty one if the instance had none) and leaves every
\* call-level dict and every other instance alone; any other bind adds the
\* entry to the namespace's call-level dict and changes nothing else.
C7_BindWritesOneEntry ==
    [][ last'.op = "bind" =>
        LET n == last'.ns
            ns == namespaces[n]
            before == IF instance_dict[ns._instance] = NoneRef THEN EmptyDict
                      ELSE dicts[instance_dict[ns._instance]]
            after == IF instance_dict'[ns._instance] = NoneRef THEN EmptyDict
                     ELSE dicts'[instance_dict'[ns._instance]] IN
        IF is_generic_in(ns, last'.typevar)
        THEN /\ after = DictSet(before, last'.typevar, last'.its_type)
             /\ \A i \in Instances \ {ns._instance} : instance_dict'[i] = instance_dict[i]
             /\ \A m \in 1..Len(namespaces) : namespaces'[m]._ns = namespaces[m]._ns
        ELSE /\ namespaces'[n]._ns = DictSet(ns._ns, last'.typevar, last'.its_type)
             /\ \A m \in 1..Len(namespaces) : m # n => namespaces'[m] = namespaces[m]
             /\ UNCHANGED <<dicts, instance_dict>> ]_vars
\* C8: create(annotation) returns what the factory of the first entry of the
\* list whose predicate matches makes of the annotation (None when no entry
\* matches); a register call with prepend makes the new entry the one that
\* wins for every annotation it matches, a register call without prepend
\* leaves the winner unchanged for every annotation an older entry matches.
\* Entries with a predicate that is already registered are accepted.
C8_RegistrationOrderDispatch ==
    [][ /\ (out'.op = "create" /\ out'.arg.checker = NoneRef) =>
             LET a == out'.arg.annotation
                 hits == {i \in 1..Len(_registered) : Matches(_registered[i].predicate, a)} IN
             IF hits = {} THEN out'.ret = NoneRef
             ELSE \E i \in hits :
                     /\ \A j \in hits : i <= j
                     /\ out'.ret = Len(checkers) + 1
                     /\ Len(checkers') = Len(checkers) + 1
                     /\ checkers'[out'.ret] = [kind |-> _registered[i].factory,
                                               arg |-> a, _check |-> NoneRef]
        /\ out'.op = "register" =>
             /\ Len(_registered') = Len(_registered) + 1
             /\ \A a \in Annotations :
                  Matches(out'.predicate, a) =>
                     LET old == {i \in 1..Len(_registered) : Matches(_registered[i].predicate, a)}
                         new == {i \in 1..Len(_registered') : Matches(_registered'[i].predicate, a)}
                         first(hits) == CHOOSE i \in hits : \A j \in hits : i <= j IN
                     IF out'.prepend \/ old = {}
                     THEN _registered'[first(new)] = Entry(out'.predicate, out'.factory)
                     ELSE /\ first(new) = first(old)
                          /\ _registered'[first(new)] = _registered[first(old)] ]_vars

C8_Witness ==
    /\ out.op = "create"
    /\ out.arg.annotation = "int"
    /\ Len(_registered) = 2
    /\ _registered[1] = Entry("isclass", "TypeVarChecker")
    /\ _registered[2] = Entry("isclass", "TypeChecker")
    /\ checkers[out.ret].kind = "TypeVarChecker"

\* C9: create(x) for a Checker instance x returns x itself, constructs no
\* checker and leaves the registry alone, whatever the registry holds.
C9_CreatePassesCheckersThrough ==
    [][ (out'.op = "create" /\ out'.arg.checker # NoneRef)
        => /\ out'.ret = out'.arg.checker
           /\ UNCHANGED <<checkers, _registered>> ]_vars

C9_Witness ==
    /\ out.op = "create"
    /\ out.arg.checker # NoneRef
    /\ out.ret = out.arg.checker
    /\ Len(_registered) = 2
    /\ Matches(_registered[1].predicate, checkers[out.ret].arg)

\* C10: check(no_value, ns) and check(None, ns) of an optional checker return
\* True and leave the namespace and the instance dicts unchanged; for any
\* other value, check of an optional that wraps a checker returns (or raises)
\* what the wrapped checker's check does, with the same effect on the
\* namespace.
C10_OptionalCheck ==
    [][ (out'.op = "check" /\ checkers[out'.checker].kind = "optional")
        => IF out'.value \in {"no_value", "None"}
           THEN /\ out'.result = "True"
                /\ UNCHANGED <<namespaces, dicts, instance_dict>>
           ELSE checkers[out'.checker]._check # NoneRef
                => check(checkers[out'.checker]._check, out'.value, out'.ns, out'.result) ]_vars

C10_Witness ==
    /\ out.op = "check"
    /\ checkers[out.checker].kind = "optional"
    /\ checkers[out.checker]._check # NoneRef
    /\ checkers[checkers[out.checker]._check].kind = "TypeVarChecker"
    /\ checkers[checkers[out.checker]._check].arg = "L"
    /\ out.value = "None"
    /\ out.result = "True"
    /\ ~is_bound(namespaces[out.ns], "L")
\* ------------------------------------------------------------ C11
RECURSIVE IsBuiltInVariant(_)
\* The checkers the module itself provides: a TypeChecker over a class, and
\* an optional over whatever Checker.create made of its argument (nothing,
\* for an annotation no predicate matches).
IsBuiltInVariant(c) ==
    IF c = NoneRef THEN TRUE
    ELSE CASE checkers[c].kind = "TypeChecker" -> checkers[c].arg \in Types
           [] checkers[c].kind = "optional"    -> IsBuiltInVariant(checkers[c]._check)
           [] OTHER                            -> FALSE

\* C11: check of a TypeChecker over a class, or of an optional over any
\* annotation or checker, returns True or False and raises nothing, for
\* every value and namespace; is_compatible on a TypeVar returns True or
\* False and raises nothing.
C11_CheckNeverRaises ==
    /\ (out.op = "check" /\ IsBuiltInVariant(out.checker))
          => out.result \in {"True", "False"}
    /\ (last.op = "is_compatible" /\ last.typevar \in TypeVars)
          => last.result \in {"True", "False"}

\* ------------------------------------------------------------ C12
\* C12: bind with something that is not a TypeVar ends in an exception (an
\* outcome that is neither a return of bind nor a False) and leaves the
\* call-level dict of every namespace and every instance-level dict as they
\* were; is_compatible with such an argument, which no namespace has a
\* binding for, ends in the same exception instead of True or False.
C12_NonTypeVarIsAnError ==
    [][(last'.op \in {"bind", "is_compatible"} /\ last'.typevar \notin TypeVars)
          => /\ last'.result = "AssertionError"
             /\ binding_of(namespaces[last'.ns], last'.typevar) = None
             /\ namespaces' = namespaces
             /\ dicts' = dicts
             /\ instance_dict' = instance_dict]_vars

C12_Witness ==
    /\ last.op = "is_compatible"
    /\ last.typevar \in NonTypeVars
    /\ last.result = "AssertionError"
    /\ \E i \in Instances : instance_dict[i] # NoneRef

\* ------------------------------------------------------------ C13
\* C13: create with an annotation (not a checker) that no registered
\* predicate matches returns None and constructs no checker; create never
\* changes the registry.
C13_CreateUnmatchedReturnsNone ==
    [][out'.op = "create"
          => /\ _registered' = _registered
             /\ (/\ out'.arg.checker = NoneRef
                 /\ \A i \in 1..Len(_registered) :
                       ~Matches(_registered[i].predicate, out'.arg.annotation))
                   => /\ out'.ret = NoneRef
                      /\ checkers' = checkers]_vars

C13_Witness ==
    /\ out.op = "create"
    /\ out.arg.checker = NoneRef
    /\ out.arg.annotation = "lit"
    /\ out.ret = NoneRef
    /\ Len(_registered) = 2
    /\ Len(checkers) > 0

\* ------------------------------------------------------------ C14
\* C14: binding_of returns the entry of the call-level dict when that dict
\* holds the typevar, else the entry of the instance-level dict the
\* namespace knows when this one holds it, else None; is_bound is true
\* exactly when binding_of is not None; neither of them changes anything.
C14_ScopeTransparentLookup ==
    [][LET ns == namespaces[last'.ns]
           v  == last'.typevar
       IN /\ last'.op = "binding_of"
                => /\ last'.result =
                        IF v \in DOMAIN ns._ns THEN ns._ns[v]
                        ELSE IF ns._instance_ns \in 1..Len(dicts)
                                /\ v \in DOMAIN dicts[ns._instance_ns]
                             THEN dicts[ns._instance_ns][v]
                             ELSE None
                   /\ UNCHANGED <<typevars, namespaces, dicts, instance_dict, regvars>>
          /\ last'.op = "is_bound"
                => /\ last'.result = PyBool(binding_of(ns, v) # None)
                   /\ UNCHANGED <<typevars, namespaces, dicts, instance_dict, regvars>>]_vars

\* binding_of answers from the call-level dict while the instance-level
\* dict of the namespace holds the typevar too, with another type.
C14_Witness ==
    /\ last.op = "binding_of"
    /\ last.typevar \in DOMAIN namespaces[last.ns]._ns
    /\ namespaces[last.ns]._instance_ns \in 1..Len(dicts)
    /\ last.typevar \in DOMAIN dicts[namespaces[last.ns]._instance_ns]
    /\ dicts[namespaces[last.ns]._instance_ns][last.typevar]
          # namespaces[last.ns]._ns[last.typevar]
    /\ last.result = namespaces[last.ns]._ns[last.typevar]

\* ------------------------------------------------------------ C15
\* C15: when the typevar has a binding and an upper bound and the binding
\* is not a subclass of the bound, is_compatible returns False for every
\* observed type and every variance, also for the bound type itself and
\* for the binding itself, and writes nothing; when the binding satisfies
\* the bound (or there is no bound), the observed type is compared with
\* the binding by the variance of the typevar and the bound plays no part.
C15_BoundViolationStep ==
    [][LET v  == last'.typevar
           S  == last'.its_type
           B  == binding_of(namespaces[last'.ns], v)
           bd == typevars[v].__bound__
       IN (last'.op = "is_compatible" /\ B # None)
             => /\ last'.result \in {"True", "False"}
                /\ UNCHANGED <<namespaces, dicts, instance_dict>>
                /\ IF bd # None /\ bd \notin Bases(B)
                   THEN last'.result = "False"
                   ELSE (last'.result = "True") <=>
                           IF typevars[v].__covariant__ THEN B \in Bases(S)
                           ELSE IF typevars[v].__contravariant__ THEN S \in Bases(B)
                           ELSE S = B]_vars

\* Covariant H bounded by Number and bound to int: Number is refused,
\* the binding int satisfying the bound.
C15_Witness ==
    /\ last.op = "is_compatible"
    /\ last.typevar = "H"
    /\ last.its_type = "Number"
    /\ last.result = "False"
    /\ typevars["H"].__bound__ = "Number"
    /\ binding_of(namespaces[last.ns], "H") = "int"

\* ------------------------------------------------------------ C16
\* C16: after any sequence of bind and is_compatible calls, no typevar is
\* held both by the call-level dict of a namespace and by the
\* instance-level dict that namespace refers to: the call-level dict holds
\* only typevars that are not parameters of the namespace's instance, the
\* instance-level dict only typevars that are.
C16_OneScopePerTypeVar ==
    \A n \in 1..Len(namespaces) :
        LET ns == namespaces[n] IN
        /\ \A v \in DOMAIN ns._ns :
              ns._instance = None \/ v \notin __parameters__(ns._instance)
        /\ ns._instance_ns # NoneRef
              => /\ DOMAIN dicts[ns._instance_ns] \subseteq __parameters__(ns._instance)
                 /\ DOMAIN ns._ns \cap DOMAIN dicts[ns._instance_ns] = {}

\* A namespace of instance I that holds L itself and G in the dict of I.
C16_Witness ==
    \E n \in 1..Len(namespaces) :
        /\ namespaces[n]._instance = "I"
        /\ "L" \in DOMAIN namespaces[n]._ns
        /\ namespaces[n]._instance_ns # NoneRef
        /\ "G" \in DOMAIN dicts[namespaces[n]._instance_ns]

\* ------------------------------------------------------------ C17
\* C17: for namespaces constructed for the same instance at any times, also
\* before the instance has a dict, and any interleaving of is_compatible
\* calls on them: a parameter bound in the dict of the instance keeps its
\* binding over every is_compatible call, the dict of the instance is not
\* replaced, and every namespace of the instance sees the binding.
C17_InstanceBindingsPersist ==
    [][last'.op = "is_compatible"
          => \A i \in Instances :
                /\ instance_dict[i] # NoneRef
                      => /\ instance_dict'[i] = instance_dict[i]
                         /\ \A v \in DOMAIN dicts[instance_dict[i]] :
                               /\ v \in DOMAIN dicts'[instance_dict'[i]]
                               /\ dicts'[instance_dict'[i]][v] = dicts[instance_dict[i]][v]
                /\ instance_dict'[i] # NoneRef
                      => \A n \in 1..Len(namespaces'), v \in DOMAIN dicts'[instance_dict'[i]] :
                            namespaces'[n]._instance = i
                               => (binding_of(namespaces[n], v))' = dicts'[instance_dict'[i]][v]]_vars

\* ------------------------------------------------------------ C18
\* C18: the registry starts as the one entry for plain classes; a register
\* call adds exactly one entry, at the end, or at the front with prepend,
\* and keeps the entries already present in their order; nothing else
\* changes the registry. So an entry registered without prepend comes
\* after the entry for plain classes, and create does not take it for an
\* annotation that is a class.
C18_RegistryGrowth ==
    /\ _registered = <<Entry("isclass", "TypeChecker")>>
    /\ [](\E k \in 1..Len(_registered) : _registered[k] = Entry("isclass", "TypeChecker"))
    /\ [][/\ _registered' # _registered => out'.op = "register"
          /\ out'.op = "register"
                => LET e == [predicate |-> out'.predicate, factory |-> out'.factory] IN
                   /\ Len(_registered') = Len(_registered) + 1
                   /\ IF out'.prepend
                      THEN /\ _registered'[1] = e
                           /\ \A i \in 1..Len(_registered) : _registered'[i + 1] = _registered[i]
                      ELSE /\ _registered'[Len(_registered')] = e
                           /\ \A i \in 1..Len(_registered) : _registered'[i] = _registered[i]
                           /\ \E k \in 1..Len(_registered) :
                                 _registered'[k] = Entry("isclass", "TypeChecker")
                           /\ \A a \in Types : (FirstMatch(a))' < Len(_registered')
          /\ (out'.op = "create" /\ out'.arg.checker = NoneRef /\ out'.arg.annotation \in Types)
                => LET k == CHOOSE k \in 1..Len(_registered) :
                                /\ _registered[k] = Entry("isclass", "TypeChecker")
                                /\ \A m \in 1..(k - 1) :
                                      _registered[m] # Entry("isclass", "TypeChecker")
                   IN \E j \in 1..k :
                         /\ Matches(_registered[j].predicate, out'.arg.annotation)
                         /\ \A m \in 1..(j - 1) :
                               ~Matches(_registered[m].predicate, out'.arg.annotation)
                         /\ out'.ret = Len(checkers) + 1
                         /\ checkers' = Append(checkers,
                               [kind |-> _registered[j].factory,
                                arg |-> out'.arg.annotation, _check |-> NoneRef])]_vars

\* An entry was prepended and then an entry for classes appended, behind
\* the entry for plain classes; create for the class int made a TypeChecker.
C18_Witness ==
    /\ Len(_registered) = 3
    /\ _registered[1] = Entry("is_typevar", "TypeVarChecker")
    /\ _registered[2] = Entry("isclass", "TypeChecker")
    /\ _registered[3] = Entry("isclass", "TypeVarChecker")
    /\ out.op = "create"
    /\ out.arg.checker = NoneRef
    /\ out.arg.annotation = "int"
    /\ checkers[out.ret].kind = "TypeChecker"

====
